---- MODULE Spec2Model ----
(***************************************************************************)
(* A model of the hash_remap remap plugin (src/trafficserver/hash_remap.c). *)
(*                                                                         *)
(* Bytes are the integers 0..255; a byte span or C string is a sequence of *)
(* bytes.  A uint64_t is a sequence of eight bytes, least significant      *)
(* first, so that every product and sum stays far below the range of the   *)
(* model checker's integers while the arithmetic is exactly modulo 2^64.   *)
(* The model takes long to be 64 bits wide (LP64), as "%lx" of a uint64_t  *)
(* requires.                                                               *)
(***************************************************************************)
EXTENDS Integers, Sequences, FiniteSets

VARIABLES
    charSigned,    \* the build: TRUE where plain char is a signed type
    rstate,        \* rule slot -> "unused" | "live" | "deleted"
    isp_name,      \* rule -> hash_remap_struct.isp_name (bytes before the NUL)
    isp_name_len,  \* rule -> hash_remap_struct.isp_name_len
    hash,          \* rule -> contents of the hash_remap_struct.hash allocation
    hash_len,      \* rule -> hash_remap_struct.hash_len, the size of that allocation
    spill,         \* rule -> bytes stored past the end of the hash allocation
    heap,          \* blocks obtained from TSmalloc/TSstrdup and not yet released
    frees,         \* block -> number of TSfree calls made on it
    lastNew,       \* arguments and result of the latest TSRemapNewInstance call
    txn,           \* thread -> the TSRemapDoRemap call it is running
    hbuf,          \* pure-function harness: first span
    pbuf,          \* pure-function harness: second span
    hres,          \* pure-function harness: the accumulator
    hpc            \* pure-function harness: "start" | "hashed" | "continued"

vars == <<charSigned, rstate, isp_name, isp_name_len, hash, hash_len, spill,
          heap, frees, lastNew, txn, hbuf, pbuf, hres, hpc>>

ruleVars == <<rstate, isp_name, isp_name_len, hash, hash_len, spill, heap, frees, lastNew>>
harnessVars == <<hbuf, pbuf, hres, hpc>>

----------------------------------------------------------------------------
(* Bounds of the model *)

MaxRules == 2
MaxThreads == 2
MaxArgc == 4
MaxSpanLen == 2

----------------------------------------------------------------------------
(* 64-bit unsigned arithmetic on eight little-endian bytes *)

Byte == 0..255
Limbs == 1..8

\* bit k of x
Bit(x, k) == (x \div (2 ^ k)) % 2

\* x ^ y on one byte
Xor8(x, y) ==
      ((Bit(x, 0) + Bit(y, 0)) % 2)
    + ((Bit(x, 1) + Bit(y, 1)) % 2) * 2
    + ((Bit(x, 2) + Bit(y, 2)) % 2) * 4
    + ((Bit(x, 3) + Bit(y, 3)) % 2) * 8
    + ((Bit(x, 4) + Bit(y, 4)) % 2) * 16
    + ((Bit(x, 5) + Bit(y, 5)) % 2) * 32
    + ((Bit(x, 6) + Bit(y, 6)) % 2) * 64
    + ((Bit(x, 7) + Bit(y, 7)) % 2) * 128

Xor64(a, b) ==
    <<Xor8(a[1], b[1]), Xor8(a[2], b[2]), Xor8(a[3], b[3]),
      Xor8(a[4], b[4]), Xor8(a[5], b[5]), Xor8(a[6], b[6]),
      Xor8(a[7], b[7]), Xor8(a[8], b[8])>>

\* the product of byte i of a with the byte of b it meets in column k
MulTerm(a, b, k, i) == IF i <= k THEN a[i] * b[k + 1 - i] ELSE 0

\* column k of the schoolbook product
MulColumn(a, b, k) ==
      MulTerm(a, b, k, 1) + MulTerm(a, b, k, 2) + MulTerm(a, b, k, 3)
    + MulTerm(a, b, k, 4) + MulTerm(a, b, k, 5) + MulTerm(a, b, k, 6)
    + MulTerm(a, b, k, 7) + MulTerm(a, b, k, 8)

\* a * b modulo 2^64: the columns with their carries; the carry out of the
\* eighth byte is dropped
Mul64(a, b) ==
    LET s1 == MulColumn(a, b, 1)
        s2 == MulColumn(a, b, 2) + (s1 \div 256)
        s3 == MulColumn(a, b, 3) + (s2 \div 256)
        s4 == MulColumn(a, b, 4) + (s3 \div 256)
        s5 == MulColumn(a, b, 5) + (s4 \div 256)
        s6 == MulColumn(a, b, 6) + (s5 \div 256)
        s7 == MulColumn(a, b, 7) + (s6 \div 256)
        s8 == MulColumn(a, b, 8) + (s7 \div 256)
    IN  <<s1 % 256, s2 % 256, s3 % 256, s4 % 256,
          s5 % 256, s6 % 256, s7 % 256, s8 % 256>>

\* 0xcbf29ce484222325
FNV1_64_INIT == <<37, 35, 34, 132, 228, 156, 242, 203>>

\* 0x100000001b3
FNV_64_PRIME == <<179, 1, 0, 0, 0, 1, 0, 0>>

\* (uint64_t)*buf for a char *buf: a signed char holding a byte >= 0x80 is
\* negative and converts to 2^64 - 256 + byte.
CharToU64(c) ==
    IF charSigned /\ c >= 128
    THEN <<c, 255, 255, 255, 255, 255, 255, 255>>
    ELSE <<c, 0, 0, 0, 0, 0, 0, 0>>

\* The loops keep their locals (the position in buf, len and hval) in one
\* record, the state of the C loop after each iteration.
RECURSIVE hash_fnv64_loop(_, _)
hash_fnv64_loop(buf, st) ==
    IF st.len > 0
    THEN hash_fnv64_loop(buf,
            [i |-> st.i + 1, len |-> st.len - 1,
             hval |-> Xor64(Mul64(st.hval, FNV_64_PRIME), CharToU64(buf[st.i]))])
    ELSE st.hval

hash_fnv64(buf, len) ==
    hash_fnv64_loop(buf, [i |-> 1, len |-> len, hval |-> FNV1_64_INIT])

RECURSIVE hash_fnv64_continue_loop(_, _)
hash_fnv64_continue_loop(buf, st) ==
    IF st.len > 0
    THEN hash_fnv64_continue_loop(buf,
            [i |-> st.i + 1, len |-> st.len - 1,
             hval |-> Xor64(Mul64(st.hval, FNV_64_PRIME), CharToU64(buf[st.i]))])
    ELSE st.hval

\* FNV-1a order (xor, then multiply) in the continuation only
RECURSIVE hash_fnv64_continue_xor_first(_, _)
hash_fnv64_continue_xor_first(buf, st) ==
    IF st.len > 0
    THEN hash_fnv64_continue_xor_first(buf,
            [i |-> st.i + 1, len |-> st.len - 1,
             hval |-> Mul64(Xor64(st.hval, CharToU64(buf[st.i])), FNV_64_PRIME)])
    ELSE st.hval

hash_fnv64_continue_mutant(buf, len, hval) ==
    hash_fnv64_continue_xor_first(buf, [i |-> 1, len |-> len, hval |-> hval])

\* the value left in *hval
hash_fnv64_continue(buf, len, hval) ==
    hash_fnv64_continue_loop(buf, [i |-> 1, len |-> len, hval |-> hval])

----------------------------------------------------------------------------
(* The pure-function harness: spans drawn from a bounded set, then hashed *)

\* "www.example", the vector of the file header
WwwExample == <<119, 119, 119, 46, 101, 120, 97, 109, 112, 108, 101>>

\* 0x24d4dc434ba8a1da
WwwExampleDigest == <<218, 161, 168, 75, 67, 220, 212, 36>>

SpanBytes == {0, 97, 128, 255}

RECURSIVE SpansUpTo(_)
SpansUpTo(n) ==
    IF n = 0 THEN {<<>>}
    ELSE LET shorter == SpansUpTo(n - 1)
         IN  shorter \cup {Append(s, b) : s \in {x \in shorter : Len(x) = n - 1}, b \in SpanBytes}

Spans == SpansUpTo(MaxSpanLen) \cup {WwwExample}

HashCall ==
    /\ hpc = "start"
    /\ hres' = hash_fnv64(hbuf, Len(hbuf))
    /\ hpc' = "hashed"
    /\ UNCHANGED <<charSigned, ruleVars, txn, hbuf, pbuf>>

ContinueCall ==
    /\ hpc = "hashed"
    /\ hres' = hash_fnv64_continue(pbuf, Len(pbuf), hres)
    /\ hpc' = "continued"
    /\ UNCHANGED <<charSigned, ruleVars, txn, hbuf, pbuf>>

----------------------------------------------------------------------------
(* The remap rules and the requests *)

NULL == 0
Rules == 1..MaxRules
Threads == 1..MaxThreads

TSREMAP_NO_REMAP == "TSREMAP_NO_REMAP"
TSREMAP_DID_REMAP == "TSREMAP_DID_REMAP"

\* What TSRemapNewInstance can find in argv[2]: a null pointer, "" or "t".
\* With argc = 2 the slot lies past the arguments and holds any of these.
Argv2Values ==
    {[isNull |-> TRUE, s |-> <<>>]} \cup
    {[isNull |-> FALSE, s |-> x] : x \in {<<>>, <<116>>}}

\* Request hosts and paths: "" and "a".  "" + "" hashes to the seed (16 hex
\* digits), "a" + "a" to 0x8326707b4eb37bb (15 hex digits).
ReqHosts == {<<>>, <<97>>}
ReqPaths == {<<>>, <<97>>}

\* What a block fresh from TSmalloc holds until line 151 first clears it; the
\* plugin never reads it before that
FreshByte == 165

Blocks(r) == {<<r, "struct">>, <<r, "isp_name">>, <<r, "hash">>}

IdleTxn ==
    [pc |-> "idle", ih |-> NULL, rri |-> NULL, url_host |-> <<>>, before |-> <<>>,
     req_host |-> <<>>, req_path |-> <<>>, hash_value |-> FNV1_64_INIT,
     len |-> 0, host_set |-> "not called", ret |-> "none"]

InFlight(t) == txn[t].pc \in {"memset", "sprintf", "sethost"}

\* printf's %lx: lowercase hexadecimal, no prefix, no padding
HexChar(n) == IF n < 10 THEN 48 + n ELSE 87 + n

Nibbles(v) ==
    [k \in 1..16 |-> LET b == v[8 - ((k - 1) \div 2)]
                     IN  IF k % 2 = 1 THEN b \div 16 ELSE b % 16]

RECURSIVE StripZeros(_)
StripZeros(ns) ==
    IF Len(ns) > 1 /\ ns[1] = 0 THEN StripZeros(Tail(ns)) ELSE ns

FormatLx(v) ==
    LET ns == StripZeros(Nibbles(v))
    IN  [k \in 1..Len(ns) |-> HexChar(ns[k])]

\* printf's %.*s: at most prec bytes of the string
FormatPrecS(prec, str) == SubSeq(str, 1, IF prec < Len(str) THEN prec ELSE Len(str))

\* the characters sprintf(.., "%lx.%.*s", hash_value, isp_name_len, isp_name) produces
Formatted(hash_value, r) ==
    FormatLx(hash_value) \o <<46>> \o FormatPrecS(isp_name_len[r], isp_name[r])

\* hash->hash_len as TSRemapNewInstance computes it
HashLen(name_len) == (8 * 1) * 2 + name_len + 1

\* lines 94-97 and 112: the value TSRemapNewInstance returns
NewInstanceRet(argc, argv2) == IF argc < 2 \/ argv2.isNull THEN -1 ELSE 0

\* lines 94-113 on the plugin's own state; r is the block TSmalloc hands out
NewInstanceBody(r, argc, argv2) ==
    /\ rstate[r] = "unused"
    /\ \A q \in Rules : q < r => rstate[q] # "unused"
    /\ IF NewInstanceRet(argc, argv2) # 0
       THEN UNCHANGED <<rstate, isp_name, isp_name_len, hash, hash_len, spill,
                        heap, frees>>
       ELSE /\ rstate' = [rstate EXCEPT ![r] = "live"]
            /\ isp_name' = [isp_name EXCEPT ![r] = argv2.s]
            /\ isp_name_len' = [isp_name_len EXCEPT ![r] = Len(argv2.s)]
            /\ hash_len' = [hash_len EXCEPT ![r] = HashLen(Len(argv2.s))]
            /\ hash' = [hash EXCEPT ![r] =
                            [i \in 1..HashLen(Len(argv2.s)) |-> FreshByte]]
            /\ heap' = heap \cup Blocks(r)
            /\ UNCHANGED <<spill, frees>>
    /\ UNCHANGED <<charSigned, txn, harnessVars>>

TSRemapNewInstance(r, argc, argv2) ==
    /\ NewInstanceBody(r, argc, argv2)
    /\ UNCHANGED lastNew

\* the same call with its arguments and results kept for inspection
NewInstanceRecorded(r, argc, argv2) ==
    /\ NewInstanceBody(r, argc, argv2)
    /\ lastNew' = [called |-> TRUE, argc |-> argc,
                   argv2 |-> IF argc < 2 THEN [isNull |-> TRUE, s |-> <<>>] ELSE argv2,
                   ret |-> NewInstanceRet(argc, argv2),
                   ih |-> IF NewInstanceRet(argc, argv2) = 0 THEN r ELSE NULL]

\* the contents of released memory are gone
Released(ih) ==
    /\ isp_name' = [isp_name EXCEPT ![ih] = <<>>]
    /\ isp_name_len' = [isp_name_len EXCEPT ![ih] = 0]
    /\ hash' = [hash EXCEPT ![ih] = <<>>]
    /\ hash_len' = [hash_len EXCEPT ![ih] = 0]
    /\ spill' = [spill EXCEPT ![ih] = <<>>]

\* a teardown that forgets to release the hash buffer
TSRemapDeleteInstance_leak(ih) ==
    /\ ih # NULL => rstate[ih] = "live" /\ \A t \in Threads : InFlight(t) => txn[t].ih # ih
    /\ IF ih # NULL
       THEN /\ heap' = heap \ {<<ih, "isp_name">>, <<ih, "struct">>}
            /\ frees' = [b \in DOMAIN frees |->
                            IF b \in {<<ih, "isp_name">>, <<ih, "struct">>}
                            THEN frees[b] + 1 ELSE frees[b]]
            /\ rstate' = [rstate EXCEPT ![ih] = "deleted"]
            /\ Released(ih)
       ELSE UNCHANGED <<heap, frees, rstate, isp_name, isp_name_len, hash, hash_len, spill>>
    /\ UNCHANGED <<charSigned, lastNew, txn, harnessVars>>

\* The proxy tears a rule down once, and only when no request is inside it.
TSRemapDeleteInstance(ih) ==
    /\ ih # NULL => rstate[ih] = "live" /\ \A t \in Threads : InFlight(t) => txn[t].ih # ih
    /\ IF ih # NULL
       THEN /\ heap' = heap \ Blocks(ih)
            /\ frees' = [b \in DOMAIN frees |->
                            IF b \in Blocks(ih) THEN frees[b] + 1 ELSE frees[b]]
            /\ rstate' = [rstate EXCEPT ![ih] = "deleted"]
            /\ Released(ih)
       ELSE UNCHANGED <<heap, frees, rstate, isp_name, isp_name_len, hash, hash_len, spill>>
    /\ UNCHANGED <<charSigned, lastNew, txn, harnessVars>>

\* TSRemapDoRemap, lines 135-149: the null checks, the reads and the digest
DoRemapBegin(t, ih, rri, host, path) ==
    /\ txn[t].pc = "idle"
    /\ ih # NULL => rstate[ih] = "live"
    /\ IF rri = NULL \/ ih = NULL
       THEN txn' = [txn EXCEPT ![t] =
                [IdleTxn EXCEPT !.pc = "done", !.ih = ih, !.rri = rri,
                                !.url_host = host, !.before = host,
                                !.ret = TSREMAP_NO_REMAP]]
       ELSE txn' = [txn EXCEPT ![t] =
                [IdleTxn EXCEPT !.pc = "memset", !.ih = ih, !.rri = rri,
                                !.url_host = host, !.before = host,
                                !.req_host = host, !.req_path = path,
                                !.hash_value =
                                    hash_fnv64_continue(path, Len(path),
                                        hash_fnv64(host, Len(host)))]]
    /\ UNCHANGED <<charSigned, ruleVars, harnessVars>>

\* line 151: memset(hash->hash, 0, hash->hash_len)
DoRemapMemset(t) ==
    /\ txn[t].pc = "memset"
    /\ hash' = [hash EXCEPT ![txn[t].ih] = [i \in 1..hash_len[txn[t].ih] |-> 0]]
    /\ txn' = [txn EXCEPT ![t].pc = "sprintf"]
    /\ UNCHANGED <<charSigned, rstate, isp_name, isp_name_len, hash_len, spill,
                   heap, frees, lastNew, harnessVars>>

\* lines 152-157: sprintf into hash->hash, then the length check
DoRemapSprintf(t) ==
    LET r == txn[t].ih
        stored == Formatted(txn[t].hash_value, r) \o <<0>>
        len == Len(stored) - 1
    IN  /\ txn[t].pc = "sprintf"
        /\ hash' = [hash EXCEPT ![r] =
                [i \in 1..hash_len[r] |-> IF i <= Len(stored) THEN stored[i] ELSE hash[r][i]]]
        /\ spill' = [spill EXCEPT ![r] =
                IF Len(stored) > hash_len[r]
                THEN SubSeq(stored, hash_len[r] + 1, Len(stored))
                ELSE spill[r]]
        /\ IF len > hash_len[r]
           THEN txn' = [txn EXCEPT ![t].len = len, ![t].ret = TSREMAP_NO_REMAP,
                                   ![t].pc = "done"]
           ELSE txn' = [txn EXCEPT ![t].len = len, ![t].pc = "sethost"]
        /\ UNCHANGED <<charSigned, rstate, isp_name, isp_name_len, hash_len,
                       heap, frees, lastNew, harnessVars>>

\* a set-host step that reports the remap although TSUrlHostSet failed
DoRemapSetHost_ignore_failure(t, ok) ==
    /\ txn[t].pc = "sethost"
    /\ txn' = [txn EXCEPT ![t].url_host =
                              IF ok THEN SubSeq(hash[txn[t].ih], 1, txn[t].len) ELSE @,
                          ![t].host_set = IF ok THEN "TS_SUCCESS" ELSE "TS_ERROR",
                          ![t].ret = TSREMAP_DID_REMAP,
                          ![t].pc = "done"]
    /\ UNCHANGED <<charSigned, ruleVars, harnessVars>>

\* a set-host step that hands over the whole buffer instead of len bytes
DoRemapSetHost_whole_buffer(t, ok) ==
    /\ txn[t].pc = "sethost"
    /\ txn' = [txn EXCEPT ![t].url_host =
                              IF ok THEN hash[txn[t].ih] ELSE @,
                          ![t].host_set = IF ok THEN "TS_SUCCESS" ELSE "TS_ERROR",
                          ![t].ret = IF ok THEN TSREMAP_DID_REMAP ELSE TSREMAP_NO_REMAP,
                          ![t].pc = "done"]
    /\ UNCHANGED <<charSigned, ruleVars, harnessVars>>

\* lines 159-167: TSUrlHostSet(.., hash->hash, len), which the proxy may refuse (ok
\* = FALSE, the URL left as it was)
DoRemapSetHost(t, ok) ==
    /\ txn[t].pc = "sethost"
    /\ txn' = [txn EXCEPT ![t].url_host =
                              IF ok THEN SubSeq(hash[txn[t].ih], 1, txn[t].len) ELSE @,
                          ![t].host_set = IF ok THEN "TS_SUCCESS" ELSE "TS_ERROR",
                          ![t].ret = IF ok THEN TSREMAP_DID_REMAP ELSE TSREMAP_NO_REMAP,
                          ![t].pc = "done"]
    /\ UNCHANGED <<charSigned, ruleVars, harnessVars>>

\* the proxy is done with the request; the thread takes the next one
NextRequest(t) ==
    /\ txn[t].pc = "done"
    /\ txn' = [txn EXCEPT ![t] = IdleTxn]
    /\ UNCHANGED <<charSigned, ruleVars, harnessVars>>

\* TSRemapDoRemap entered while no other thread is inside the same rule
DoRemapBeginAlone(t, ih, rri, host, path) ==
    /\ \A u \in Threads : InFlight(u) => txn[u].ih # ih
    /\ DoRemapBegin(t, ih, rri, host, path)

\* TSRemapDoRemap entered with a host and path pair that no transform running
\* on the same rule was given
DoRemapBeginDistinct(t, ih, rri, host, path) ==
    /\ \A u \in Threads :
          InFlight(u) /\ txn[u].ih = ih => <<txn[u].req_host, txn[u].req_path>> # <<host, path>>
    /\ DoRemapBegin(t, ih, rri, host, path)

----------------------------------------------------------------------------
(* Specifications *)

InitRules ==
    /\ rstate = [r \in Rules |-> "unused"]
    /\ isp_name = [r \in Rules |-> <<>>]
    /\ isp_name_len = [r \in Rules |-> 0]
    /\ hash = [r \in Rules |-> <<>>]
    /\ hash_len = [r \in Rules |-> 0]
    /\ spill = [r \in Rules |-> <<>>]
    /\ heap = {}
    /\ frees = [b \in UNION {Blocks(r) : r \in Rules} |-> 0]
    /\ lastNew = [called |-> FALSE, argc |-> 0,
                  argv2 |-> [isNull |-> TRUE, s |-> <<>>], ret |-> 0, ih |-> NULL]
    /\ txn = [t \in Threads |-> IdleTxn]

InitHarness ==
    /\ hbuf = <<>>
    /\ pbuf = <<>>
    /\ hres = FNV1_64_INIT
    /\ hpc = "start"

\* The plugin under the proxy's worker threads
Init ==
    /\ charSigned \in BOOLEAN
    /\ InitRules
    /\ InitHarness

Next ==
    \/ \E r \in Rules, argc \in 0..MaxArgc, argv2 \in Argv2Values :
            TSRemapNewInstance(r, argc, argv2)
    \/ \E ih \in {NULL} \cup Rules : TSRemapDeleteInstance(ih)
    \/ \E t \in Threads, ih \in {NULL} \cup Rules, rri \in {NULL, 1},
          host \in ReqHosts, path \in ReqPaths :
            DoRemapBegin(t, ih, rri, host, path)
    \/ \E t \in Threads : DoRemapMemset(t)
    \/ \E t \in Threads : DoRemapSprintf(t)
    \/ \E t \in Threads, ok \in BOOLEAN : DoRemapSetHost(t, ok)
    \/ \E t \in Threads : NextRequest(t)

Spec == Init /\ [][Next]_vars

\* The same plugin with the transforms of one rule invoked one at a time
NextSeq ==
    \/ \E r \in Rules, argc \in 0..MaxArgc, argv2 \in Argv2Values :
            TSRemapNewInstance(r, argc, argv2)
    \/ \E ih \in {NULL} \cup Rules : TSRemapDeleteInstance(ih)
    \/ \E t \in Threads, ih \in {NULL} \cup Rules, rri \in {NULL, 1},
          host \in ReqHosts, path \in ReqPaths :
            DoRemapBeginAlone(t, ih, rri, host, path)
    \/ \E t \in Threads : DoRemapMemset(t)
    \/ \E t \in Threads : DoRemapSprintf(t)
    \/ \E t \in Threads, ok \in BOOLEAN : DoRemapSetHost(t, ok)
    \/ \E t \in Threads : NextRequest(t)

SpecSeq == Init /\ [][NextSeq]_vars

\* The same plugin with concurrent transforms of one rule given distinct inputs
NextDistinct ==
    \/ \E r \in Rules, argc \in 0..MaxArgc, argv2 \in Argv2Values :
            TSRemapNewInstance(r, argc, argv2)
    \/ \E ih \in {NULL} \cup Rules : TSRemapDeleteInstance(ih)
    \/ \E t \in Threads, ih \in {NULL} \cup Rules, rri \in {NULL, 1},
          host \in ReqHosts, path \in ReqPaths :
            DoRemapBeginDistinct(t, ih, rri, host, path)
    \/ \E t \in Threads : DoRemapMemset(t)
    \/ \E t \in Threads : DoRemapSprintf(t)
    \/ \E t \in Threads, ok \in BOOLEAN : DoRemapSetHost(t, ok)
    \/ \E t \in Threads : NextRequest(t)

SpecDistinct == Init /\ [][NextDistinct]_vars

\* The hash functions applied to spans drawn from a bounded set
InitHash ==
    /\ charSigned \in BOOLEAN
    /\ InitRules
    /\ hbuf \in Spans
    /\ pbuf \in Spans
    /\ hres = FNV1_64_INIT
    /\ hpc = "start"

\* Rules loaded and unloaded by the configuration thread, no traffic
NextConfig ==
    \/ \E r \in Rules, argc \in 0..MaxArgc, argv2 \in Argv2Values :
            NewInstanceRecorded(r, argc, argv2)
    \/ \E ih \in {NULL} \cup Rules : TSRemapDeleteInstance(ih)

SpecConfig == Init /\ [][NextConfig]_vars

NextHash == HashCall \/ ContinueCall

SpecHash == InitHash /\ [][NextHash]_vars

----------------------------------------------------------------------------
(* Properties *)

Done(t) == txn[t].pc = "done"

\* a finished call that got past the null checks, on a rule still loaded
Transformed(t) ==
    /\ Done(t)
    /\ txn[t].host_set # "not called"
    /\ rstate[txn[t].ih] = "live"

\* the digest of the request's own host followed by its own path
OwnDigest(t) ==
    hash_fnv64(txn[t].before \o txn[t].req_path,
               Len(txn[t].before) + Len(txn[t].req_path))

\* <lowercase hex of the own digest> "." <suffix of the rule>
OwnOutput(t) == FormatLx(OwnDigest(t)) \o <<46>> \o isp_name[txn[t].ih]

\* C1: with the transforms running together on a rule given distinct host and
\* path inputs, every transform that reports "changed" has set its request's
\* host to the output formatted from its own host and path, under every
\* interleaving of the clear, format and set-host steps.
C1_ConcurrentTransformsKeepOwnOutput ==
    \A t \in Threads :
        Transformed(t) /\ txn[t].ret = TSREMAP_DID_REMAP => txn[t].url_host = OwnOutput(t)

\* C2: the scratch allocation of every loaded rule holds at least
\* 16 + 1 + L + 1 bytes, and no formatting step stores more bytes (characters
\* and terminator) than the allocation holds.
C2_ScratchHoldsFormattedOutput ==
    /\ \A r \in Rules :
          rstate[r] = "live" =>
              /\ hash_len[r] >= 16 + 1 + isp_name_len[r] + 1
              /\ spill[r] = <<>>
    /\ \A t \in Threads :
          txn[t].pc = "sethost" => txn[t].len + 1 <= hash_len[txn[t].ih]

\* C3: construction fails and yields no handle when argc < 3 or the suffix
\* token is null or empty, and succeeds only with argc >= 3 and a non-empty
\* suffix token.
C3_ConstructionValidatesArguments ==
    lastNew.called =>
        LET bad == lastNew.argc < 3 \/ lastNew.argv2.isNull \/ lastNew.argv2.s = <<>>
        IN  /\ bad => lastNew.ret = -1 /\ lastNew.ih = NULL
            /\ lastNew.ret = 0 => ~bad

\* the FNV-1 fold the specification states: multiply modulo 2^64, then xor
\* the byte's value 0..255 into the low eight bits
RECURSIVE Fnv1Fold(_, _)
Fnv1Fold(buf, st) ==
    IF st.i > Len(buf) THEN st.acc
    ELSE Fnv1Fold(buf,
            [i |-> st.i + 1,
             acc |-> Xor64(Mul64(st.acc, FNV_64_PRIME), <<buf[st.i], 0, 0, 0, 0, 0, 0, 0>>)])

Fnv1OfUnsignedBytes(buf, i, acc) == Fnv1Fold(buf, [i |-> i, acc |-> acc])

\* C4: hash_fnv64 of any span is the FNV-1 fold of its unsigned bytes from
\* the seed, on every build; "www.example" gives 0x24d4dc434ba8a1da.
C4_HashIsFnv1OfUnsignedBytes ==
    hpc = "hashed" =>
        /\ hres = Fnv1OfUnsignedBytes(hbuf, 1, FNV1_64_INIT)
        /\ hbuf = <<>> => hres = FNV1_64_INIT
        /\ hbuf = WwwExample => hres = WwwExampleDigest

\* C5: hashing h and then continuing with p gives the hash of h followed by
\* p; continuing with an empty span leaves the accumulator as it was.
C5_ContinueEqualsHashOfConcatenation ==
    hpc = "continued" =>
        /\ hres = hash_fnv64(hbuf \o pbuf, Len(hbuf) + Len(pbuf))
        /\ pbuf = <<>> => hres = hash_fnv64(hbuf, Len(hbuf))

C5_Witness ==
    /\ hpc = "continued"
    /\ Len(hbuf) = 1
    /\ Len(pbuf) = 1
    /\ hbuf[1] >= 128
    /\ hres # hash_fnv64(hbuf, Len(hbuf))

\* C6: after a transform that reports "changed" the request's host is the
\* unpadded lowercase hex digest (1 to 16 digits) of host followed by path,
\* a ".", and the suffix; the length passed to the set-host call is
\* digits + 1 + |S| and at most 16 + 1 + |S|.
C6_ChangedHostIsHexDotSuffix ==
    \A t \in Threads :
        Transformed(t) /\ txn[t].ret = TSREMAP_DID_REMAP =>
            LET digits == FormatLx(OwnDigest(t))
                S == isp_name[txn[t].ih]
            IN  /\ Len(digits) \in 1..16
                /\ txn[t].len = Len(digits) + 1 + Len(S)
                /\ txn[t].len <= 16 + 1 + Len(S)
                /\ Len(txn[t].url_host) = txn[t].len
                /\ SubSeq(txn[t].url_host, 1, Len(digits)) = digits
                /\ txn[t].url_host[Len(digits) + 1] = 46
                /\ SubSeq(txn[t].url_host, Len(digits) + 2, txn[t].len) = S

\* C7: a transform that reports "unchanged" leaves the request's host as it
\* was before the call, and a transform reports "changed" only when the
\* set-host call succeeded.
C7_UnchangedLeavesHost ==
    \A t \in Threads :
        Done(t) =>
            /\ txn[t].ret \in {TSREMAP_NO_REMAP, TSREMAP_DID_REMAP}
            /\ txn[t].ret = TSREMAP_NO_REMAP => txn[t].url_host = txn[t].before
            /\ txn[t].ret = TSREMAP_DID_REMAP => txn[t].host_set = "TS_SUCCESS"
            /\ (txn[t].ih = NULL \/ txn[t].rri = NULL) => txn[t].ret = TSREMAP_NO_REMAP
            /\ txn[t].host_set = "TS_ERROR" => txn[t].ret = TSREMAP_NO_REMAP

C7_Witness ==
    \E t, u \in Threads :
        /\ Done(t) /\ txn[t].host_set = "TS_ERROR" /\ txn[t].before # <<>>
        /\ Done(u) /\ txn[u].rri = NULL /\ txn[u].before # <<>>

\* C8: a step of a transform leaves every rule's suffix, suffix length and
\* scratch capacity as they were, stores nothing outside the rule's scratch
\* allocation, and changes the scratch contents of no rule but its own.
C8_TransformChangesOnlyHostAndOwnScratch ==
    [][\A r \in Rules :
          rstate'[r] = rstate[r] =>
              /\ isp_name'[r] = isp_name[r]
              /\ isp_name_len'[r] = isp_name_len[r]
              /\ hash_len'[r] = hash_len[r]
              /\ spill'[r] = spill[r]
              /\ hash'[r] # hash[r] =>
                    \E t \in Threads : txn[t].ih = r /\ InFlight(t) /\ txn'[t] # txn[t]]_vars

\* C9: with the transforms of a rule run one at a time, each one's result is
\* decided by its own host, path, the rule's suffix and the set-host result
\* alone: the host it sets is the one a fresh rule would give, and the
\* rule's configuration is as construction left it.
C9_SequentialTransformIndependentOfHistory ==
    \A t \in Threads :
        Transformed(t) =>
            /\ txn[t].host_set = "TS_SUCCESS" =>
                    txn[t].ret = TSREMAP_DID_REMAP /\ txn[t].url_host = OwnOutput(t)
            /\ txn[t].host_set = "TS_ERROR" =>
                    txn[t].ret = TSREMAP_NO_REMAP /\ txn[t].url_host = txn[t].before
            /\ hash_len[txn[t].ih] = HashLen(Len(isp_name[txn[t].ih]))
            /\ Len(hash[txn[t].ih]) = hash_len[txn[t].ih]

\* a shorter output set after a longer one, and after a failed one, on the
\* same rule
C9_Witness ==
    \E t, u \in Threads :
        /\ t # u
        /\ Transformed(t) /\ Transformed(u)
        /\ txn[t].ih = txn[u].ih
        /\ txn[t].ret = TSREMAP_DID_REMAP /\ txn[u].ret = TSREMAP_DID_REMAP
        /\ txn[t].len > txn[u].len
        /\ SubSeq(hash[txn[u].ih], 1, txn[u].len) = txn[u].url_host
        /\ spill[txn[u].ih] # <<>>

\* C10: the blocks allocated and not released are exactly the three blocks
\* of each loaded rule; the blocks of a torn-down rule were each released
\* once, and no other block was ever released.
C10_AllocationsBalanced ==
    /\ heap = UNION {Blocks(r) : r \in {q \in Rules : rstate[q] = "live"}}
    /\ \A r \in Rules : \A b \in Blocks(r) :
          frees[b] = IF rstate[r] = "deleted" THEN 1 ELSE 0

C10_Witness ==
    \E r, q \in Rules :
        /\ rstate[r] = "deleted"
        /\ rstate[q] = "live"
        /\ \E t \in Threads : Done(t) /\ txn[t].ih = r /\ txn[t].ret = TSREMAP_DID_REMAP

====
